---- MODULE Spec2Model ----
(***************************************************************************)
(* Model of word_count_function.py: an AWS Lambda handler triggered by an  *)
(* S3 event.  It reads the object, counts its whitespace-separated words   *)
(* and publishes the result to an SNS topic.                               *)
(*                                                                         *)
(* Representation.                                                         *)
(*   - JSON values of the event are tagged records [t, v]: dict, list,     *)
(*     str, null.  A str value is an atomic TLA+ string.                   *)
(*   - Formatted strings (f-strings, exception texts) are ropes: sequences *)
(*     of string fragments in the order the formatting emits them.         *)
(*   - Object bodies are sequences of byte values; decoded text is a       *)
(*     sequence of Unicode code points.                                    *)
(***************************************************************************)
EXTENDS Integers, Sequences, FiniteSets, Bags, TLC

(* ---------------------------------------------------------------- bounds *)
MaxLen == 3              \* longest text given to the word-count harness
NumInvocations == 2      \* handler invocations that may run concurrently

Invocations == 1..NumInvocations

(* ----------------------------------------------------------- JSON values *)
Dict(f) == [t |-> "dict", v |-> f]
List(s) == [t |-> "list", v |-> s]
Str(s)  == [t |-> "str",  v |-> s]
Null    == [t |-> "null", v |-> "None"]
Unbound == [t |-> "unbound", v |-> "unbound"]   \* a local not yet assigned

K(name) == [t |-> "str", v |-> name]    \* subscript by a string key
Idx(n)  == [t |-> "int", v |-> n]       \* subscript by an integer index

(* ------------------------------------------------------------ exceptions *)
\* cls: the Python class; msg: str(e) as a rope; line: the handler line of
\* the traceback's frame in lambda_handler.
Exc(cls, msg, line) == [cls |-> cls, msg |-> msg, line |-> line]
NoExc == Exc("None", <<>>, 0)

Ok(val)   == [ok |-> TRUE,  val |-> val,     exc |-> NoExc]
Fail(exc) == [ok |-> FALSE, val |-> Unbound, exc |-> exc]

\* repr() of a subscript key, as it appears in str(KeyError(key))
Repr(k) == IF k.t = "str" THEN <<"'", k.v, "'">> ELSE <<ToString(k.v)>>

\* Faulty variant of Subscript: a dict yields None for a missing key, as
\* dict.get does, instead of raising KeyError.
SubscriptNoKeyError(obj, k, line) ==
    CASE obj.t = "dict" ->
           IF k.t = "str" /\ k.v \in DOMAIN obj.v
           THEN Ok(obj.v[k.v])
           ELSE Ok(Null)
      [] obj.t = "list" ->
           IF k.t # "int"
           THEN Fail(Exc("TypeError",
                  <<"list indices must be integers or slices, not str">>, line))
           ELSE IF k.v < Len(obj.v)
           THEN Ok(obj.v[k.v + 1])
           ELSE Fail(Exc("IndexError", <<"list index out of range">>, line))
      [] obj.t = "str" /\ k.t = "str" ->
           Fail(Exc("TypeError",
                  <<"string indices must be integers, not 'str'">>, line))
      [] obj.t = "null" ->
           Fail(Exc("TypeError",
                  <<"'NoneType' object is not subscriptable">>, line))

\* Python's obj[k] for the value shapes an event can hold.
Subscript(obj, k, line) ==
    CASE obj.t = "dict" ->
           IF k.t = "str" /\ k.v \in DOMAIN obj.v
           THEN Ok(obj.v[k.v])
           ELSE Fail(Exc("KeyError", Repr(k), line))
      [] obj.t = "list" ->
           IF k.t # "int"
           THEN Fail(Exc("TypeError",
                  <<"list indices must be integers or slices, not str">>, line))
           ELSE IF k.v < Len(obj.v)
           THEN Ok(obj.v[k.v + 1])
           ELSE Fail(Exc("IndexError", <<"list index out of range">>, line))
      [] obj.t = "str" /\ k.t = "str" ->
           Fail(Exc("TypeError",
                  <<"string indices must be integers, not 'str'">>, line))
      [] obj.t = "null" ->
           Fail(Exc("TypeError",
                  <<"'NoneType' object is not subscriptable">>, line))

\* obj[path[1]][path[2]]..., stopping at the first subscript that raises
RECURSIVE GetPath(_, _, _)
GetPath(obj, path, line) ==
    IF path = <<>> THEN Ok(obj)
    ELSE LET r == Subscript(obj, Head(path), line)
         IN  IF r.ok THEN GetPath(r.val, Tail(path), line) ELSE r

\* str(x) as an f-string interpolates it
Format(x) == x.v

(* ---------------------------------------------------- bytes and decoding *)
\* bytes.decode('utf-8') for one- and two-byte sequences: a byte below 0x80
\* is its own code point; a lead byte 0xC2..0xDF takes one continuation
\* byte 0x80..0xBF; every other byte here is an invalid start byte.
RECURSIVE decode_utf8(_)
decode_utf8(b) ==
    IF b = <<>> THEN [ok |-> TRUE, text |-> <<>>]
    ELSE IF b[1] < 128
    THEN LET r == decode_utf8(Tail(b))
         IN  IF r.ok THEN [ok |-> TRUE, text |-> <<b[1]>> \o r.text] ELSE r
    ELSE IF b[1] \in 194..223 /\ Len(b) >= 2 /\ b[2] \in 128..191
    THEN LET r == decode_utf8(SubSeq(b, 3, Len(b)))
         IN  IF r.ok
             THEN [ok |-> TRUE,
                   text |-> <<(b[1] - 192) * 64 + (b[2] - 128)>> \o r.text]
             ELSE r
    ELSE [ok |-> FALSE, text |-> <<>>]

(* ---------------------------------------------------------- str.split() *)
\* Faulty variant of IsSpace: only SPACE separates, as with split(' ').
OnlyAsciiSpace(c) == c = 32

\* The code points str.split() with no separator treats as whitespace
\* (str.isspace): TAB LF VT FF CR, FS GS RS US, SPACE, NEL, NBSP and the
\* Unicode space separators.
IsSpace(c) ==
    c \in (9..13) \cup (28..32) \cup {133, 160, 5760} \cup (8192..8202)
          \cup {8232, 8233, 8239, 8287, 12288}

\* first index >= i of s holding whitespace, or Len(s) + 1
RECURSIVE WordEnd(_, _)
WordEnd(s, i) ==
    IF i > Len(s) \/ IsSpace(s[i]) THEN i ELSE WordEnd(s, i + 1)

\* the words of s from index i on: skip whitespace, take a maximal run
RECURSIVE SplitFrom(_, _)
SplitFrom(s, i) ==
    IF i > Len(s) THEN <<>>
    ELSE IF IsSpace(s[i]) THEN SplitFrom(s, i + 1)
    ELSE LET j == WordEnd(s, i)
         IN  <<SubSeq(s, i, j - 1)>> \o SplitFrom(s, j)

Split(s) == SplitFrom(s, 1)

\* str(n) for n >= 0, one fragment per decimal digit
RECURSIVE Decimal(_)
Decimal(n) ==
    IF n < 10 THEN <<ToString(n)>>
    ELSE Decimal(n \div 10) \o <<ToString(n % 10)>>

(* ------------------------------------------------ lines 28-30 and 41 *)
WordCount(text) == Len(Split(text))

Subject == <<"Word Count Result">>

\* Faulty variant of Message: the two placeholders exchanged.
MessageSwapped(file_name, word_count) ==
    <<"The word count in the ">> \o Decimal(word_count)
        \o <<" file is ", Format(file_name), ".">>

\* line 30
Message(file_name, word_count) ==
    <<"The word count in the ", Format(file_name), " file is ">>
        \o Decimal(word_count) \o <<".">>

\* json.dumps of the confirmation string: the string in double quotes
ResultBody(file_name) ==
    <<"\"", "Successfully processed ", Format(file_name), ".", "\"">>

SuccessResult(file_name) == [statusCode |-> 200, body |-> ResultBody(file_name)]
NoResult == [statusCode |-> 0, body |-> <<>>]

(* ------------------------------------------------------------ the inputs *)
TopicArn == "arn:aws:sns:us-east-1:123456789012:word-count"

\* process environments: with and without the topic's variable
Environments == { [SNS_TOPIC_ARN |-> Str(TopicArn)], <<>> }

Record(b, k) ==
    Dict([s3 |-> Dict([bucket |-> Dict([name |-> b]),
                       object |-> Dict([key |-> k])])])

OneRecord  == Dict([Records |-> List(<<Record(Str("b"), Str("f.txt"))>>)])
\* three records: the second names another object, the third is no record
ManyRecords == Dict([Records |-> List(<<Record(Str("b2"), Str("g.txt")),
                                        Record(Str("b"), Str("f.txt")),
                                        Null>>)])

\* events whose first record lacks a field or has the wrong shape
NoRecords     == Dict(<<>>)
EmptyRecords  == Dict([Records |-> List(<<>>)])
NullRecords   == Dict([Records |-> Null])
NoBucketName  == Dict([Records |-> List(<<
                    Dict([s3 |-> Dict([bucket |-> Dict(<<>>),
                                       object |-> Dict([key |-> Str("f.txt")])])])>>)])
BucketIsStr   == Dict([Records |-> List(<<
                    Dict([s3 |-> Dict([bucket |-> Str("b"),
                                       object |-> Dict([key |-> Str("f.txt")])])])>>)])
NoKey         == Dict([Records |-> List(<<
                    Dict([s3 |-> Dict([bucket |-> Dict([name |-> Str("b")]),
                                       object |-> Dict(<<>>)])])>>)])
MalformedEvents == {NoRecords, EmptyRecords, NullRecords, NoBucketName,
                    BucketIsStr, NoKey}

\* every field present, but the key is the empty string
EmptyKey == Dict([Records |-> List(<<Record(Str("b"), Str(""))>>)])

Events == {OneRecord, ManyRecords, EmptyKey} \cup MalformedEvents

\* object bodies the bucket may hold: "a b c"; the empty object; ten words
\* on ten lines, the first "\xc3\xa9" (e-acute); and one byte that is not
\* UTF-8
ObjectBodies ==
    { <<97, 32, 98, 32, 99>>,
      <<>>,
      <<195, 169, 10, 97, 10, 97, 10, 97, 10, 97, 10, 97, 10, 97, 10, 97, 10,
        97, 10, 97, 10>>,
      <<255>> }

\* failures of GetObject: botocore's exception class and error code
FetchErrors ==
    { [cls |-> "ClientError", code |-> "NoSuchKey",
       text |-> "The specified key does not exist."],
      [cls |-> "ClientError", code |-> "AccessDenied", text |-> "Access Denied"],
      [cls |-> "EndpointConnectionError", code |-> "",
       text |-> "Could not connect to the endpoint URL"] }

PublishErrors ==
    { [cls |-> "ClientError", code |-> "AuthorizationError",
       text |-> "User is not authorized to perform: SNS:Publish"] }

\* str(e) of a botocore exception
ServiceMsg(err, operation) ==
    IF err.cls = "ClientError"
    THEN <<"An error occurred (", err.code, ") when calling the ", operation,
           " operation: ", err.text>>
    ELSE <<err.text>>

\* the alphabet of the word-count harness: SPACE TAB LF CR FF VT, "a", "b"
Alphabet == {32, 9, 10, 13, 12, 11, 97, 98}
Texts == UNION { [1..n -> Alphabet] : n \in 0..MaxLen }

(* ------------------------------------------------------------- the state *)
VARIABLES
    env,            \* os.environ of the process
    proc,           \* "importing", "ready" (module imported), "init_failed"
    SNS_TOPIC_ARN,  \* the module global of line 10
    import_error,   \* the exception that ended the import, if any
    pc,             \* per invocation: "idle", "line24", "line33", "except",
                    \*   "Succeeded", "Failed"
    event,          \* per invocation: the event it was invoked with
    bucket_name, file_name, file_content, word_count, message,
                    \* per invocation: the handler's locals
    exc,            \* per invocation: the exception caught at line 44
    raised,         \* per invocation: the exception that left the handler
    result,         \* per invocation: the value returned at line 39
    calls,          \* per invocation: the outbound calls issued, in order
    topic,          \* the SNS topic: bag of the notifications published
    log,            \* stdout: bag of the lines printed
    text, words     \* word-count harness: input text and len(text.split())

vars == <<env, proc, SNS_TOPIC_ARN, import_error, pc, event, bucket_name,
          file_name, file_content, word_count, message, exc, raised, result, calls, topic,
          log, text, words>>

locals  == <<bucket_name, file_name, file_content, word_count, message>>
process == <<env, proc, SNS_TOPIC_ARN, import_error>>
harness == <<text, words>>

Running(i)  == pc[i] \in {"line24", "line33", "except"}
Terminal(i) == pc[i] \in {"Succeeded", "Failed"}

InitHandler ==
    /\ proc = "importing"
    /\ SNS_TOPIC_ARN = Unbound
    /\ import_error = NoExc
    /\ pc = [i \in Invocations |-> "idle"]
    /\ event = [i \in Invocations |-> Unbound]
    /\ bucket_name = [i \in Invocations |-> Unbound]
    /\ file_name = [i \in Invocations |-> Unbound]
    /\ file_content = [i \in Invocations |-> <<>>]
    /\ word_count = [i \in Invocations |-> -1]
    /\ message = [i \in Invocations |-> <<>>]
    /\ exc = [i \in Invocations |-> NoExc]
    /\ raised = [i \in Invocations |-> NoExc]
    /\ result = [i \in Invocations |-> NoResult]
    /\ calls = [i \in Invocations |-> <<>>]
    /\ topic = EmptyBag
    /\ log = EmptyBag

Init ==
    /\ env \in Environments
    /\ InitHandler
    /\ text = <<>>
    /\ words = -1

(* ----------------------------------------------------- module import *)
\* Faulty variant of Load: os.environ.get('SNS_TOPIC_ARN'), which yields None
\* for a missing variable and lets the import complete.
LoadGetenv ==
    /\ proc = "importing"
    /\ proc' = "ready"
    /\ SNS_TOPIC_ARN' = IF "SNS_TOPIC_ARN" \in DOMAIN env
                        THEN env["SNS_TOPIC_ARN"] ELSE Null
    /\ UNCHANGED <<env, import_error, pc, event, locals, exc, raised, result,
                   calls, topic, log, harness>>

\* lines 5-10: the clients are built and os.environ['SNS_TOPIC_ARN'] is read
\* while the module is imported; a KeyError there ends the import, and
\* lambda_handler (line 12) is never defined.
Load ==
    /\ proc = "importing"
    /\ LET r == Subscript(Dict(env), K("SNS_TOPIC_ARN"), 10)
       IN  IF r.ok
           THEN /\ proc' = "ready"
                /\ SNS_TOPIC_ARN' = r.val
                /\ UNCHANGED import_error
           ELSE /\ proc' = "init_failed"
                /\ import_error' = r.exc
                /\ UNCHANGED SNS_TOPIC_ARN
    /\ UNCHANGED <<env, pc, event, locals, exc, raised, result, calls, topic,
                   log, harness>>

(* ------------------------------------------------------ lambda_handler *)
\* an exception inside the try block: control goes to line 44 with e bound
Raise(i, e) ==
    /\ exc' = [exc EXCEPT ![i] = e]
    /\ pc' = [pc EXCEPT ![i] = "except"]

\* an outbound call, appended to the invocation's trace
Call(i, c) == calls' = [calls EXCEPT ![i] = Append(@, c)]

\* Faulty variant of S3Event: the last record, event['Records'][-1]['s3'].
S3EventLast(ev) ==
    LET recs == Subscript(ev, K("Records"), 19)
    IN  IF ~recs.ok THEN recs
        ELSE IF recs.val.t = "list" /\ Len(recs.val.v) > 0
        THEN GetPath(recs.val, <<Idx(Len(recs.val.v) - 1), K("s3")>>, 19)
        ELSE GetPath(recs.val, <<Idx(0), K("s3")>>, 19)

\* line 19: event['Records'][0]['s3']
S3Event(ev) == GetPath(ev, <<K("Records"), Idx(0), K("s3")>>, 19)

\* lines 12-21: the runtime calls the handler, which extracts the bucket
\* name and the key of the first record
Invoke(i, ev) ==
    /\ proc = "ready"
    /\ pc[i] = "idle"
    /\ event' = [event EXCEPT ![i] = ev]
    /\ LET r19 == S3Event(ev)
           r20 == GetPath(r19.val, <<K("bucket"), K("name")>>, 20)
           r21 == GetPath(r19.val, <<K("object"), K("key")>>, 21)
       IN  IF ~r19.ok
           THEN Raise(i, r19.exc) /\ UNCHANGED <<bucket_name, file_name>>
           ELSE IF ~r20.ok
           THEN Raise(i, r20.exc) /\ UNCHANGED <<bucket_name, file_name>>
           ELSE IF ~r21.ok
           THEN /\ Raise(i, r21.exc)
                /\ bucket_name' = [bucket_name EXCEPT ![i] = r20.val]
                /\ UNCHANGED file_name
           ELSE /\ bucket_name' = [bucket_name EXCEPT ![i] = r20.val]
                /\ file_name' = [file_name EXCEPT ![i] = r21.val]
                /\ pc' = [pc EXCEPT ![i] = "line24"]
                /\ UNCHANGED exc
    /\ UNCHANGED <<process, file_content, word_count, message, raised, result,
                   calls, topic, log, harness>>

\* botocore validates the parameters before it sends the request: Bucket and
\* Key must be strings, and not empty
ValidParams(i) ==
    /\ bucket_name[i].t = "str" /\ bucket_name[i].v # ""
    /\ file_name[i].t = "str" /\ file_name[i].v # ""

ParamValidation ==
    [cls |-> "ParamValidationError", code |-> "",
     text |-> "Parameter validation failed"]

GetObjectCall(i, outcome) ==
    [op |-> "get_object", Bucket |-> bucket_name[i], Key |-> file_name[i],
     outcome |-> outcome]

\* Faulty variant of OnFetchError: the error is dropped and the handler goes
\* on to the publish.
OnFetchErrorContinue(i, err) ==
    /\ pc' = [pc EXCEPT ![i] = "line33"]
    /\ UNCHANGED exc

\* Faulty variant of OnFetchError: the fetch is tried again.
OnFetchErrorRetry(i, err) ==
    /\ UNCHANGED <<pc, exc>>

\* line 24 raises: no retry, control goes to the except clause
OnFetchError(i, err) ==
    Raise(i, Exc(err.cls, ServiceMsg(err, "GetObject"), 24))

\* lines 25-30 on a body that was fetched
Decoded(i, body) ==
    LET d == decode_utf8(body)
    IN  IF ~d.ok
        THEN /\ Raise(i, Exc("UnicodeDecodeError",
                        <<"'utf-8' codec can't decode byte">>, 25))
             /\ UNCHANGED <<file_content, word_count, message>>
        ELSE /\ file_content' = [file_content EXCEPT ![i] = d.text]
             /\ word_count' = [word_count EXCEPT ![i] = WordCount(d.text)]
             /\ message' = [message EXCEPT ![i] =
                              Message(file_name[i], WordCount(d.text))]
             /\ pc' = [pc EXCEPT ![i] = "line33"]
             /\ UNCHANGED exc

\* lines 24-30: the fetch, then the local computation up to the publish
GetObject(i) ==
    /\ pc[i] = "line24"
    /\ \/ /\ ~ValidParams(i)
          /\ Call(i, GetObjectCall(i, "failed"))
          /\ OnFetchError(i, ParamValidation)
          /\ UNCHANGED <<file_content, word_count, message>>
       \/ /\ ValidParams(i)
          /\ \E err \in FetchErrors :
                /\ Call(i, GetObjectCall(i, "failed"))
                /\ OnFetchError(i, err)
          /\ UNCHANGED <<file_content, word_count, message>>
       \/ /\ ValidParams(i)
          /\ \E body \in ObjectBodies :
                /\ Call(i, GetObjectCall(i, "ok"))
                /\ Decoded(i, body)
    /\ UNCHANGED <<process, event, bucket_name, file_name, raised, result,
                   topic, log, harness>>

PublishCall(i, outcome) ==
    [op |-> "publish", TopicArn |-> SNS_TOPIC_ARN, Subject |-> Subject,
     Message |-> message[i], outcome |-> outcome]

\* a notification on the topic; by is the invocation that published it
Notification(i) ==
    [TopicArn |-> SNS_TOPIC_ARN, Subject |-> Subject, Message |-> message[i],
     by |-> i]

Content(n) == <<n.TopicArn, n.Subject, n.Message>>

\* Faulty variant of Deliver: a message whose content is already on the
\* topic is not published again.
DeliverDedup(i) ==
    topic' = IF \E n \in BagToSet(topic) : Content(n) = Content(Notification(i))
             THEN topic
             ELSE topic (+) SetToBag({Notification(i)})

\* the topic accepts the message
Deliver(i) == topic' = topic (+) SetToBag({Notification(i)})

\* Faulty variant of OnPublishError: the error is dropped and the handler
\* returns the success result.
OnPublishErrorSwallow(i, err) ==
    /\ result' = [result EXCEPT ![i] = SuccessResult(file_name[i])]
    /\ pc' = [pc EXCEPT ![i] = "Succeeded"]
    /\ UNCHANGED exc

\* line 33 raises
OnPublishError(i, err) ==
    /\ Raise(i, Exc(err.cls, ServiceMsg(err, "Publish"), 33))
    /\ UNCHANGED result

\* lines 33-42: the publish, then the return of the result
Publish(i) ==
    /\ pc[i] = "line33"
    /\ \/ /\ Call(i, PublishCall(i, "ok"))
          /\ Deliver(i)
          /\ result' = [result EXCEPT ![i] = SuccessResult(file_name[i])]
          /\ pc' = [pc EXCEPT ![i] = "Succeeded"]
          /\ UNCHANGED exc
       \/ /\ \E err \in PublishErrors :
                /\ Call(i, PublishCall(i, "failed"))
                /\ OnPublishError(i, err)
          /\ UNCHANGED topic
    /\ UNCHANGED <<process, event, locals, raised, log, harness>>

\* line 45: the line printed for exception e
LogLine(e) == <<"Error processing file: ">> \o e.msg

\* Faulty variant of Except: the exception is raised again without the print.
ExceptNoLog(i) ==
    /\ pc[i] = "except"
    /\ raised' = [raised EXCEPT ![i] = exc[i]]
    /\ pc' = [pc EXCEPT ![i] = "Failed"]
    /\ UNCHANGED <<process, event, locals, exc, result, calls, topic, log,
                   harness>>

\* lines 44-46: print the exception, then raise it again
Except(i) ==
    /\ pc[i] = "except"
    /\ log' = log (+) SetToBag({LogLine(exc[i])})
    /\ raised' = [raised EXCEPT ![i] = exc[i]]
    /\ pc' = [pc EXCEPT ![i] = "Failed"]
    /\ UNCHANGED <<process, event, locals, exc, result, calls, topic, harness>>

Step(i) == GetObject(i) \/ Publish(i) \/ Except(i)

Next ==
    \/ Load
    \/ \E i \in Invocations, ev \in Events : Invoke(i, ev)
    \/ \E i \in Invocations : GetObject(i)
    \/ \E i \in Invocations : Publish(i)
    \/ \E i \in Invocations : Except(i)

Spec == Init /\ [][Next]_vars

\* The handler is synchronous and each outbound call returns or fails, so an
\* invocation that has started keeps taking its next step.
FairSpec == Spec /\ \A i \in Invocations : WF_vars(Step(i))

(* ------------------------------------------------- word-count harness *)
\* line 28 applied to every text over Alphabet of at most MaxLen characters
CountWords ==
    /\ words = -1
    /\ words' = WordCount(text)
    /\ UNCHANGED <<process, pc, event, locals, exc, raised, result, calls,
                   topic, log, text>>

InitCount ==
    /\ env = [SNS_TOPIC_ARN |-> Str(TopicArn)]
    /\ InitHandler
    /\ text \in Texts
    /\ words = -1

NextCount == CountWords

SpecCount == InitCount /\ [][NextCount]_vars

(* ================================================================ claims *)
\* Vocabulary of the properties.

Succeeded(i) == pc[i] = "Succeeded"
Failed(i)    == pc[i] = "Failed"

RECURSIVE SumCopies(_)
SumCopies(S) ==
    IF S = {} THEN 0
    ELSE LET n == CHOOSE m \in S : TRUE
         IN  CopiesIn(n, topic) + SumCopies(S \ {n})

\* notifications on the topic that invocation i published
Published(i) == SumCopies({n \in BagToSet(topic) : n.by = i})

\* notifications on the topic with the content c
CopiesOfContent(c) == SumCopies({n \in BagToSet(topic) : Content(n) = c})

CallsOf(i, op) == {k \in 1..Len(calls[i]) : calls[i][k].op = op}

FetchFailed(i) ==
    \E k \in CallsOf(i, "get_object") : calls[i][k].outcome = "failed"

\* The error kinds of the design, read off the exception that leaves the
\* handler: the line of lambda_handler it was raised at, and its class.
ErrorKind(e) ==
    CASE e.line = 10 -> "ConfigurationError"
      [] e.line \in 19..21 -> "MalformedEventError"
      [] e.line = 24 -> "ObjectFetchError"
      [] e.line = 25 /\ e.cls = "UnicodeDecodeError" -> "DecodeError"
      [] e.line = 33 -> "PublishError"
      [] OTHER -> "none"

HasField(d, f) == d.t = "dict" /\ f \in DOMAIN d.v

\* the first record of ev carries a bucket name field and an object key field
WellFormed(ev) ==
    /\ HasField(ev, "Records")
    /\ ev.v.Records.t = "list"
    /\ Len(ev.v.Records.v) >= 1
    /\ LET rec == ev.v.Records.v[1]
       IN  /\ HasField(rec, "s3")
           /\ HasField(rec.v.s3, "bucket")
           /\ HasField(rec.v.s3, "object")
           /\ HasField(rec.v.s3.v.bucket, "name")
           /\ HasField(rec.v.s3.v.object, "key")

FirstBucket(ev) == ev.v.Records.v[1].v.s3.v.bucket.v.name
FirstKey(ev)    == ev.v.Records.v[1].v.s3.v.object.v.key

Started(i) == pc[i] # "idle"

\* C1: an invocation that ends Succeeded published exactly one notification
\* and returned the success result; one that ends Failed published none and
\* ended with an exception; no invocation ever has more than one notification
\* on the topic.
C1_OneNotificationOrNone ==
    \A i \in Invocations :
        /\ Published(i) <= 1
        /\ Succeeded(i) => /\ Published(i) = 1
                           /\ raised[i] = NoExc
                           /\ result[i].statusCode = 200
        /\ Failed(i) => /\ Published(i) = 0
                        /\ raised[i] # NoExc
                        /\ result[i] = NoResult

\* one invocation succeeded, another failed at the publish call
C1_Witness ==
    \E i, j \in Invocations :
        /\ Succeeded(i) /\ Published(i) = 1
        /\ Failed(j) /\ raised[j].line = 33

\* C2: when the first record lacks the bucket name or key field, or the
\* record list or storage descriptor has the wrong shape, the invocation
\* issues no fetch and no publish, never succeeds, and the exception that
\* leaves it is of the kind MalformedEventError.
C2_MalformedEventNoCalls ==
    \A i \in Invocations :
        (Started(i) /\ ~WellFormed(event[i])) =>
            /\ calls[i] = <<>>
            /\ Published(i) = 0
            /\ pc[i] \in {"except", "Failed"}
            /\ ErrorKind(exc[i]) = "MalformedEventError"
            /\ Failed(i) => ErrorKind(raised[i]) = "MalformedEventError"

\* an invocation failed on an event whose object descriptor has no key
C2_Witness ==
    \E i \in Invocations :
        /\ Failed(i) /\ event[i] = NoKey
        /\ raised[i].cls = "KeyError" /\ raised[i].line = 21

\* C3: when the storage fetch fails, the invocation issues no publish call,
\* publishes nothing, and fails with the kind ObjectFetchError.
C3_FetchFailureNoPublish ==
    \A i \in Invocations :
        FetchFailed(i) =>
            /\ CallsOf(i, "publish") = {}
            /\ Published(i) = 0
            /\ pc[i] \in {"except", "Failed"}
            /\ Failed(i) => ErrorKind(raised[i]) = "ObjectFetchError"

\* an invocation failed because the object does not exist
C3_Witness ==
    \E i \in Invocations :
        /\ Failed(i) /\ FetchFailed(i)
        /\ raised[i].cls = "ClientError" /\ raised[i].msg[2] = "NoSuchKey"

Mentions(line, s) == \E k \in 1..Len(line) : line[k] = s

\* lines on stdout for the exception e, and invocations that failed with it
Logged(e) == CopiesIn(<<"Error processing file: ">> \o e.msg, log)
FailedWith(e) == Cardinality({j \in Invocations : Failed(j) /\ raised[j] = e})

\* C4 as claimed: every failed invocation ended with its error re-raised,
\* and when the bucket name and key are known the line logged for the error
\* names both of them.
C4_LogIdentifiesObject ==
    \A i \in Invocations :
        Failed(i) =>
            /\ raised[i] # NoExc
            /\ Logged(raised[i]) >= 1
            /\ (bucket_name[i].t = "str" /\ file_name[i].t = "str") =>
                   /\ Mentions(LogLine(raised[i]), bucket_name[i].v)
                   /\ Mentions(LogLine(raised[i]), file_name[i].v)

\* C4 as amended: every error caught is logged before it is re-raised, the
\* line being "Error processing file: " followed by the exception's own
\* text; the exception re-raised is the one caught; an invocation that
\* caught an error never succeeds.
C4_ErrorLoggedAndReraised ==
    \A i \in Invocations :
        /\ Failed(i) => /\ raised[i] # NoExc
                        /\ raised[i] = exc[i]
                        /\ Logged(raised[i]) >= FailedWith(raised[i])
        /\ exc[i] # NoExc => pc[i] \in {"except", "Failed"}
        /\ pc[i] = "except" => exc[i] # NoExc

\* two invocations failed, one at the extraction and one at the decoding
C4_Witness ==
    \E i, j \in Invocations :
        /\ Failed(i) /\ raised[i].line = 19
        /\ Failed(j) /\ raised[j].cls = "UnicodeDecodeError"

\* the number N as the body shows it, for N below 100
Digits(N) ==
    IF N < 10 THEN <<ToString(N)>>
    ELSE <<ToString(N \div 10), ToString(N % 10)>>

SpecWhitespace == {32, 9, 10, 13, 12, 11}

\* maximal runs of non-whitespace in the text: the positions where one starts
Runs(T) ==
    Cardinality({k \in 1..Len(T) :
                    /\ T[k] \notin SpecWhitespace
                    /\ (k = 1 \/ T[k - 1] \in SpecWhitespace)})

\* C5: the one notification of a successful invocation has the subject
\* "Word Count Result" and the body "The word count in the K file is N.",
\* K the key of the event's first record and N the word count of the
\* content that invocation fetched.
C5_MessageTemplate ==
    \A i \in Invocations :
        Succeeded(i) =>
            /\ Published(i) = 1
            /\ \A n \in BagToSet(topic) :
                 n.by = i =>
                    /\ n.Subject = <<"Word Count Result">>
                    /\ n.Message =
                         <<"The word count in the ", FirstKey(event[i]).v,
                           " file is ">> \o Digits(Runs(file_content[i]))
                           \o <<".">>

\* key f.txt, content "a b c": "The word count in the f.txt file is 3."
C5_Witness ==
    \E i \in Invocations, n \in BagToSet(topic) :
        /\ Succeeded(i) /\ n.by = i
        /\ file_content[i] = <<97, 32, 98, 32, 99>>
        /\ n.Message = <<"The word count in the ", "f.txt", " file is ", "3",
                         ".">>

\* C6: the word count of a text over the alphabet is the number of its
\* maximal runs of non-whitespace characters; it is 0 for the empty text and
\* for a text of whitespace only; and a whitespace character added in front,
\* at the end or next to a whitespace character inside leaves it unchanged.
C6_CountIsRuns ==
    words # -1 =>
        /\ words = Runs(text)
        /\ (\A k \in 1..Len(text) : text[k] \in SpecWhitespace) => words = 0
        /\ \A w \in SpecWhitespace :
              /\ WordCount(<<w>> \o text) = words
              /\ WordCount(text \o <<w>>) = words
              /\ \A k \in 1..Len(text) :
                    text[k] \in SpecWhitespace =>
                       WordCount(SubSeq(text, 1, k) \o <<w>>
                                   \o SubSeq(text, k + 1, Len(text))) = words

\* "a\tb": two words separated by a tab
C6_Witness ==
    /\ text = <<97, 9, 98>>
    /\ words = 2

\* C7: in a process started without the topic identifier the import fails
\* with the configuration error, no invocation is ever started, and no fetch
\* and no publish is ever issued.
C7_NoTopicNoProcessing ==
    "SNS_TOPIC_ARN" \notin DOMAIN env =>
        /\ proc \in {"importing", "init_failed"}
        /\ proc = "init_failed" =>
              /\ import_error.cls = "KeyError"
              /\ ErrorKind(import_error) = "ConfigurationError"
        /\ \A i \in Invocations : pc[i] = "idle" /\ calls[i] = <<>>
        /\ topic = EmptyBag

\* the import failed for want of the variable
C7_Witness ==
    /\ "SNS_TOPIC_ARN" \notin DOMAIN env
    /\ proc = "init_failed"

\* what an invocation owns
Own(i) == <<pc[i], event[i], bucket_name[i], file_name[i], file_content[i],
            word_count[i], message[i], exc[i], raised[i], result[i], calls[i]>>

\* two invocations with the same event that both succeeded each have one
\* notification on the topic, and the topic holds the same content twice
\* or more when their messages are equal
TwoNotifications ==
    \A i, j \in Invocations :
        (i # j /\ event[i] = event[j] /\ Succeeded(i) /\ Succeeded(j)) =>
            /\ Published(i) = 1 /\ Published(j) = 1
            /\ message[i] = message[j] =>
                  CopiesOfContent(Content(Notification(i))) >= 2

\* C8: after every step, two invocations with the same event that both
\* succeeded have left two notifications on the topic, one each (the same
\* content twice when they fetched the same content); and a step of one
\* invocation changes nothing another invocation owns.
C8_NoDeduplication ==
    [][/\ TwoNotifications'
       /\ \A i, j \in Invocations :
            (i # j /\ Own(i)' # Own(i)) => Own(j)' = Own(j)]_vars

\* two invocations with the same event published the same message
C8_Witness ==
    \E i, j \in Invocations :
        /\ i # j /\ event[i] = event[j] /\ event[i] = OneRecord
        /\ Succeeded(i) /\ Succeeded(j)
        /\ message[i] = message[j]

CallOps(i) == [k \in 1..Len(calls[i]) |-> calls[i][k].op]

\* C9: an invocation issues at most one fetch and at most one publish, the
\* fetch first; a terminal state is never left and a started invocation is
\* never idle again; after a failed call the invocation only goes on to
\* Failed; and again and again no invocation is running, so that every
\* running invocation reaches Succeeded or Failed.
C9_TerminatesOnce ==
    /\ [][\A i \in Invocations :
            /\ CallOps(i)' \in {<<>>, <<"get_object">>,
                                <<"get_object", "publish">>}
            /\ Terminal(i) => pc'[i] = pc[i]
            /\ Started(i) => Started(i)'
            /\ (\E k \in 1..Len(calls[i]) : calls[i][k].outcome = "failed")
                  => pc'[i] \in {"except", "Failed"}]_vars
    /\ []<>(\A i \in Invocations : ~Running(i))

\* an invocation ended after a failed publish, with one call of each kind
C9_Witness ==
    \E i \in Invocations :
        /\ Failed(i)
        /\ CallOps(i) = <<"get_object", "publish">>
        /\ calls[i][2].outcome = "failed"

\* C10: for an event of more than one record whose first record is well
\* formed, the handler raises no extraction error, fetches only the first
\* record's bucket and key, and on success has published one notification
\* naming the first record's key and returned the success result; the other
\* records are neither fetched nor notified nor reported.
C10_OnlyFirstRecord ==
    \A i \in Invocations :
        (Started(i) /\ WellFormed(event[i]) /\ Len(event[i].v.Records.v) > 1) =>
            /\ ErrorKind(exc[i]) # "MalformedEventError"
            /\ \A k \in CallsOf(i, "get_object") :
                  /\ calls[i][k].Bucket = FirstBucket(event[i])
                  /\ calls[i][k].Key = FirstKey(event[i])
            /\ Cardinality(CallsOf(i, "get_object")) <= 1
            /\ Succeeded(i) =>
                  /\ Cardinality(CallsOf(i, "get_object")) = 1
                  /\ Published(i) = 1
                  /\ Mentions(message[i], FirstKey(event[i]).v)
                  /\ \A n \in BagToSet(topic) : n.by = i => n.Message = message[i]
                  /\ result[i] = [statusCode |-> 200,
                                  body |-> <<"\"", "Successfully processed ",
                                             FirstKey(event[i]).v, ".", "\"">>]
                  /\ raised[i] = NoExc

\* success on the event of three records
C10_Witness ==
    \E i \in Invocations :
        /\ Succeeded(i) /\ event[i] = ManyRecords
        /\ calls[i][1].Key = Str("g.txt")

====
